---- MODULE Spec2Model ----
(***************************************************************************)
(* A model of clipsai/resize/facenet_mp.py (class FaceNetMediaPipeResizer). *)
(*                                                                         *)
(* Time.  Segment boundaries and scene changes are floats (seconds) in the *)
(* code.  The model counts them in ticks of 1/8 s (TicksPerSec), so the    *)
(* 0.25 s tolerance of the code is QuarterSec = 2 ticks.  The Scanner adds *)
(* (end - start) / 8 to a boundary; it therefore counts in eighths of a    *)
(* tick (SubPerTick), which keeps that division exact.                     *)
(*                                                                         *)
(* Indices.  Python lists are 0-based, TLA+ sequences 1-based: an index i  *)
(* of the code is i + 1 in the model.                                      *)
(***************************************************************************)
EXTENDS Integers, Sequences, FiniteSets, TLC

VARIABLES
    pc,                \* position of the modelled call
    video_file,        \* the video's metadata: width, height (pixels)
    aspect_ratio,      \* resize: the aspect_ratio argument <<width, height>>
    detector_stable,   \* TRUE when extraction and detection give the same
                       \* answer each time the same timestamp is requested
    orig_segments,     \* the speaker_segments argument as it was passed in
    speaker_segments,  \* _merge_scene_change_and_speaker_segments: the list
    scene_changes,     \* its scene_changes argument
    sc_pos,            \* position of the for loop over scene_changes
    segments_idx,      \* its cursor (1-based)
    segments,          \* the segment list of the later stages
    in_segments,       \* the list a stage was called with
    merge_idx,         \* _merge_identical_segments: idx (1-based)
    iters_left,        \* _merge_identical_segments: iterations of the for loop left
    roi,               \* _calc_crop: roi
    resize_width,      \* _calc_crop: resize_width
    resize_height,     \* _calc_crop: resize_height
    crop,              \* _calc_crop: the Rect returned
    num_frames,        \* _calc_n_batches: num_frames
    cuda,              \* torch.cuda.is_available()
    n_batches,         \* _calc_n_batches: the value returned
    batch_period,      \* _find_first_sec_with_face_for_each_segment: batch_period
    analyzed_segments, \* its count of analyzed segments
    scan_rounds,       \* history: detect_secs and face_detections of each of
                       \* its rounds so far
    sel_pos,           \* _add_x_y_coords_to_each_segment_batch: position of the
                       \* loop "for segment in segments" of line 651 (1-based)
    seg_detect_secs,   \* the timestamps it put on detect_secs for the segment
                       \* it read last (lines 635-640)
    seg_detections,    \* the face_detections slice of the segment it read last
    kmeans_order,      \* _calc_segment_roi: the clusters of that segment, in the
                       \* order of their labels
    mouth_movements,   \* and the mouth_movement of each of them (line 747)
    resize_info        \* what resize returned

mergerVars == <<orig_segments, speaker_segments, scene_changes, sc_pos, segments_idx>>
compactorVars == <<segments, in_segments, merge_idx, iters_left>>
cropVars == <<roi, resize_width, resize_height, crop>>
plannerVars == <<num_frames, cuda, n_batches>>
scannerVars == <<batch_period, analyzed_segments, scan_rounds>>
selectorVars == <<sel_pos, seg_detect_secs, seg_detections, kmeans_order, mouth_movements>>
callVars == <<aspect_ratio, detector_stable>>

vars == <<pc, video_file, callVars, mergerVars, compactorVars, cropVars, plannerVars, scannerVars,
          selectorVars, resize_info>>

\* The value of a variable the running stage does not use.
None == "None"

MergerIdle ==
    /\ orig_segments = None /\ speaker_segments = None /\ scene_changes = None
    /\ sc_pos = None /\ segments_idx = None
CompactorIdle ==
    segments = None /\ in_segments = None /\ merge_idx = None /\ iters_left = None
CropIdle ==
    roi = None /\ resize_width = None /\ resize_height = None /\ crop = None
PlannerIdle ==
    num_frames = None /\ cuda = None /\ n_batches = None
ScannerIdle ==
    batch_period = None /\ analyzed_segments = None /\ scan_rounds = None
SelectorIdle ==
    /\ sel_pos = None /\ seg_detect_secs = None /\ seg_detections = None
    /\ kmeans_order = None /\ mouth_movements = None /\ resize_info = None
CallIdle ==
    aspect_ratio = None /\ detector_stable = None

\* ---------------------------------------------------------------- bounds
MaxTime == 8            \* the timeline's last tick
MaxSegments == 3        \* speaker segments of an input
MaxSceneChanges == 3    \* scene changes of an input
MaxCompactSegments == 4 \* segments of a Compactor input
MaxX == 3               \* largest crop x of a Compactor input
MaxRoi == 4             \* largest coordinate and size of a region of interest
MaxResize == 6          \* largest resize width and height
MaxFrames == 5000       \* largest frame count of a planner call
MaxScanSegments == 2    \* segments of a Scanner input
MaxBatchPeriod == 50    \* cap of the Scanner's batch_period
MaxMouthMovement == 1   \* largest mouth movement score of a cluster
MaxPixels == 8          \* largest width and height of a source frame
MaxRatio == 3           \* largest term of an aspect ratio

\* ------------------------------------------------------------- constants
TicksPerSec == 8
QuarterSec == 2         \* 0.25 s in ticks

\* ------------------------------------------------------------ sequences
Last(s) == s[Len(s)]

Max(a, b) == IF a >= b THEN a ELSE b
Min(a, b) == IF a <= b THEN a ELSE b

\* del d[key] of a Python dict, and d[key] = value (the dict is a record here)
Del(d, key) == [k \in DOMAIN d \ {key} |-> d[k]]
HasKey(d, key) == key \in DOMAIN d

SetToSeq(S) ==
    LET RECURSIVE Build(_, _)
        Build(T, acc) ==
            IF T = {} THEN acc
            ELSE LET m == CHOOSE x \in T : \A y \in T : x <= y
                 IN  Build(T \ {m}, Append(acc, m))
    IN  Build(S, <<>>)

\* ------------------------------------------------------------- inputs
\* Speaker segments: time-ordered, contiguous, each with startTime < endTime.
\* The i-th input segment carries the speaker set {i}.
SegmentsOf(bounds) ==
    [i \in 1..(Len(bounds) - 1) |->
        [startTime |-> bounds[i], endTime |-> bounds[i + 1], speakers |-> {i}]]

SpeakerSegmentInputs ==
    {SegmentsOf(SetToSeq(B)) :
        B \in {X \in SUBSET (0..MaxTime) :
                   Cardinality(X) >= 2 /\ Cardinality(X) <= MaxSegments + 1}}

\* Scene changes: strictly ascending instants.
SceneChangeInputs ==
    {SetToSeq(C) : C \in {X \in SUBSET (0..MaxTime) : Cardinality(X) <= MaxSceneChanges}}

\* ------------------------------------------------ Timeline Merger (code)
\* while scene_change_sec > segment["endTime"]: segments_idx += 1
\* 0 stands for the IndexError of speaker_segments[segments_idx].
RECURSIVE AdvanceCursor(_, _, _)
AdvanceCursor(segs, idx, sc) ==
    IF idx > Len(segs) THEN 0
    ELSE IF sc > segs[idx].endTime THEN AdvanceCursor(segs, idx + 1, sc)
    ELSE idx

\* scene change is close to speaker segment end -> merge the two
SnapEndNoNext(segs, idx, sc) ==
    [segs EXCEPT ![idx].endTime = sc]

SnapEnd(segs, idx, sc) ==
    IF idx = Len(segs)
    THEN [segs EXCEPT ![idx].endTime = sc]
    ELSE [segs EXCEPT ![idx].endTime = sc, ![idx + 1].startTime = sc]

\* The snap of a start that leaves the previous segment's end where it was.
SnapStartNoPrev(segs, idx, sc) ==
    [segs EXCEPT ![idx].startTime = sc]

\* scene change is close to speaker segment start -> merge the two
SnapStart(segs, idx, sc) ==
    IF idx = 1
    THEN [segs EXCEPT ![idx].startTime = sc]
    ELSE [segs EXCEPT ![idx].startTime = sc, ![idx - 1].endTime = sc]

\* The split whose right-hand segment carries no speakers.
SplitAtNoSpeakers(segs, idx, sc) ==
    SubSeq(segs, 1, idx - 1)
    \o <<[segs[idx] EXCEPT !.endTime = sc]>>
    \o <<[startTime |-> sc, speakers |-> {}, endTime |-> segs[idx].endTime]>>
    \o SubSeq(segs, idx + 1, Len(segs))

\* add scene change to segments
SplitAt(segs, idx, sc) ==
    LET segment == segs[idx]
        new_segment == [startTime |-> sc,
                        speakers |-> segment.speakers,
                        endTime |-> segment.endTime]
    IN  SubSeq(segs, 1, idx - 1)
        \o <<[segment EXCEPT !.endTime = sc]>>
        \o <<new_segment>>
        \o SubSeq(segs, idx + 1, Len(segs))

\* The body of the for loop for one scene change, the cursor already on the
\* segment: the list after it.
MergeSceneChange(segs, idx, sc) ==
    LET segment == segs[idx] IN
    IF 0 < segment.endTime - sc /\ segment.endTime - sc < QuarterSec
    THEN SnapEnd(segs, idx, sc)
    ELSE IF 0 < sc - segment.startTime /\ sc - segment.startTime < QuarterSec
    THEN SnapStart(segs, idx, sc)
    ELSE IF sc = segment.endTime
    THEN segs
    ELSE SplitAt(segs, idx, sc)

MergerInit ==
    /\ pc = "merge"
    /\ orig_segments \in SpeakerSegmentInputs
    /\ speaker_segments = orig_segments
    /\ scene_changes \in SceneChangeInputs
    /\ sc_pos = 1
    /\ segments_idx = 1
    /\ video_file = None
    /\ CompactorIdle /\ CropIdle /\ PlannerIdle /\ ScannerIdle /\ SelectorIdle /\ CallIdle

\* One iteration of "for scene_change_sec in scene_changes".
MergeStep ==
    /\ pc = "merge"
    /\ sc_pos <= Len(scene_changes)
    /\ LET sc == scene_changes[sc_pos]
           idx == AdvanceCursor(speaker_segments, segments_idx, sc)
       IN  IF idx = 0
           THEN /\ pc' = "IndexError"  \* speaker_segments[segments_idx] raises
                /\ UNCHANGED mergerVars
           ELSE /\ speaker_segments' = MergeSceneChange(speaker_segments, idx, sc)
                /\ segments_idx' = idx
                /\ sc_pos' = sc_pos + 1
                /\ UNCHANGED <<pc, orig_segments, scene_changes>>
    /\ UNCHANGED <<video_file, callVars, compactorVars, cropVars, plannerVars, scannerVars, selectorVars, resize_info>>

\* return speaker_segments
MergeReturn ==
    /\ pc = "merge"
    /\ sc_pos > Len(scene_changes)
    /\ pc' = "merged"
    /\ UNCHANGED <<mergerVars, video_file, callVars, compactorVars, cropVars, plannerVars, scannerVars, selectorVars, resize_info>>

MergerNext == MergeStep \/ MergeReturn

SpecMerger == MergerInit /\ [][MergerNext]_vars

\* ------------------------------------------- Timeline Merger (claims)
FirstStart(segs) == segs[1].startTime
LastEnd(segs) == Last(segs).endTime

\* every scene change lies inside the timeline of the input
SceneChangesInside ==
    \A k \in 1..Len(scene_changes) :
        /\ FirstStart(orig_segments) <= scene_changes[k]
        /\ scene_changes[k] <= LastEnd(orig_segments)

Contiguous(segs) ==
    \A i \in 1..(Len(segs) - 1) : segs[i].endTime = segs[i + 1].startTime

TimeOrdered(segs) ==
    /\ \A i \in 1..Len(segs) : segs[i].startTime <= segs[i].endTime
    /\ \A i \in 1..(Len(segs) - 1) : segs[i].startTime <= segs[i + 1].startTime

Boundaries(segs) ==
    {segs[i].startTime : i \in 1..Len(segs)} \cup {segs[i].endTime : i \in 1..Len(segs)}

\* C1: for ordered contiguous speaker segments and ascending scene changes
\* inside the timeline, the list the Merger returns is time-ordered and
\* contiguous: segment[i].endTime = segment[i+1].startTime for every
\* adjacent pair.
C1_MergerContiguous ==
    (pc = "merged" /\ SceneChangesInside)
        => (Contiguous(speaker_segments) /\ TimeOrdered(speaker_segments))

\* C1 witness: a returned list after a split and a snap of an inner boundary.
C1_Witness ==
    /\ pc = "merged"
    /\ SceneChangesInside
    /\ Len(orig_segments) >= 2
    /\ Len(speaker_segments) > Len(orig_segments)
    /\ \E i \in 2..Len(orig_segments) :
           orig_segments[i].startTime \notin Boundaries(speaker_segments)

\* C4: a scene change greater than the endTime of the last segment is a
\* no-op: no index error is raised and the segment list stays as it was.
C4_PastEndIsNoOp ==
    [][(/\ pc = "merge"
        /\ sc_pos <= Len(scene_changes)
        /\ scene_changes[sc_pos] > LastEnd(speaker_segments))
       => (pc' # "IndexError" /\ speaker_segments' = speaker_segments)]_vars

\* C5: for valid input the first startTime and the last endTime of the
\* returned list equal those of the input.
C5_MergerKeepsBounds ==
    (pc = "merged" /\ SceneChangesInside)
        => /\ FirstStart(speaker_segments) = FirstStart(orig_segments)
           /\ LastEnd(speaker_segments) = LastEnd(orig_segments)

\* C6: for valid input every returned segment has startTime < endTime.
C6_NoEmptySegments ==
    (pc = "merged" /\ SceneChangesInside)
        => \A i \in 1..Len(speaker_segments) :
               speaker_segments[i].startTime < speaker_segments[i].endTime

\* C10: when every scene change equals a startTime or endTime of an input
\* segment, the returned list has as many segments as the input.
C10_BoundariesAddNoSegment ==
    (/\ pc = "merged"
     /\ \A k \in 1..Len(scene_changes) : scene_changes[k] \in Boundaries(orig_segments))
        => Len(speaker_segments) = Len(orig_segments)

\* The scene change the Merger handles next
NextSceneChange == scene_changes[sc_pos]

\* sc lies more than 0 and less than 0.25 s after the start of segment k and
\* at least 0.25 s before its end
JustAfterStart(segs, k, sc) ==
    /\ 0 < sc - segs[k].startTime /\ sc - segs[k].startTime < QuarterSec
    /\ segs[k].endTime - sc >= QuarterSec

\* after is before with the start of segment k, and the end of the segment
\* before it if there is one, set to sc, and nothing else changed
StartSnapped(before, after, k, sc) ==
    /\ Len(after) = Len(before)
    /\ \A i \in 1..Len(before) :
           /\ after[i].speakers = before[i].speakers
           /\ after[i].startTime = (IF i = k THEN sc ELSE before[i].startTime)
           /\ after[i].endTime = (IF i = k - 1 THEN sc ELSE before[i].endTime)

\* C16: a scene change more than 0 and less than 0.25 s after the startTime
\* of the segment containing it, and at least 0.25 s before its endTime, sets
\* that startTime and the previous segment's endTime (if there is one) to the
\* instant; no segment is created and no other boundary changes.
C16_SnapToStart ==
    [][\A k \in 1..Len(speaker_segments) :
           (/\ pc = "merge"
            /\ sc_pos <= Len(scene_changes)
            /\ JustAfterStart(speaker_segments, k, NextSceneChange))
           => (/\ pc' = "merge"
               /\ StartSnapped(speaker_segments, speaker_segments', k, NextSceneChange))]_vars

\* C16 witness: the only scene change was snapped onto the boundary between
\* two segments of the input.
C16_Witness ==
    /\ pc = "merged"
    /\ Len(scene_changes) = 1
    /\ \E k \in 2..Len(orig_segments) :
           /\ JustAfterStart(orig_segments, k, scene_changes[1])
           /\ StartSnapped(orig_segments, speaker_segments, k, scene_changes[1])
           /\ speaker_segments[k - 1].endTime # orig_segments[k - 1].endTime

\* sc lies inside segment k, at least 0.25 s after its start and at least
\* 0.25 s before its end
WellInside(segs, k, sc) ==
    /\ sc - segs[k].startTime >= QuarterSec
    /\ segs[k].endTime - sc >= QuarterSec

\* after is before with segment k replaced by [startTime, sc] and
\* [sc, endTime], both with the speakers of segment k
SplitInTwo(before, after, k, sc) ==
    /\ Len(after) = Len(before) + 1
    /\ \A i \in 1..(k - 1) : after[i] = before[i]
    /\ after[k] = [startTime |-> before[k].startTime, endTime |-> sc,
                   speakers |-> before[k].speakers]
    /\ after[k + 1] = [startTime |-> sc, endTime |-> before[k].endTime,
                       speakers |-> before[k].speakers]
    /\ \A i \in (k + 1)..Len(before) : after[i + 1] = before[i]

\* C20: a scene change strictly inside a segment, at least 0.25 s after its
\* startTime and at least 0.25 s before its endTime, replaces the segment by
\* [startTime, instant] and [instant, endTime] with the original speaker set;
\* the list grows by exactly one segment and all others are unchanged.
C20_SplitAtSceneChange ==
    [][\A k \in 1..Len(speaker_segments) :
           (/\ pc = "merge"
            /\ sc_pos <= Len(scene_changes)
            /\ WellInside(speaker_segments, k, NextSceneChange))
           => (/\ pc' = "merge"
               /\ SplitInTwo(speaker_segments, speaker_segments', k, NextSceneChange))]_vars

\* C20 witness: the only scene change split the middle segment of three.
C20_Witness ==
    /\ pc = "merged"
    /\ Len(scene_changes) = 1
    /\ Len(orig_segments) = 3
    /\ WellInside(orig_segments, 2, scene_changes[1])
    /\ SplitInTwo(orig_segments, speaker_segments, 2, scene_changes[1])

\* --------------------------------------------------- Crop Calculator (code)
Rect(x, y, width, height) == [x |-> x, y |-> y, width |-> width, height |-> height]

\* _calc_crop without the clamp to 0
CalcCropUnclamped(r, rw, rh) ==
    Rect((r.x + r.width \div 2) - (rw \div 2),
         (r.y + r.height \div 2) - (rh \div 2),
         rw, rh)

\* _calc_crop that also keeps the crop inside the source frame
CalcCropClampedToFrame(r, rw, rh) ==
    Rect(Max(Min((r.x + r.width \div 2) - (rw \div 2), video_file.width - rw), 0),
         Max(Min((r.y + r.height \div 2) - (rh \div 2), video_file.height - rh), 0),
         rw, rh)

CalcCrop(r, rw, rh) ==
    LET roi_x_center == r.x + r.width \div 2
        roi_y_center == r.y + r.height \div 2
    IN  Rect(Max(roi_x_center - (rw \div 2), 0),
             Max(roi_y_center - (rh \div 2), 0),
             rw, rh)

CropInit ==
    /\ pc = "crop"
    /\ roi \in [x : 0..MaxRoi, y : 0..MaxRoi, width : 0..MaxRoi, height : 0..MaxRoi]
    /\ resize_width \in 1..MaxResize
    /\ resize_height \in 1..MaxResize
    /\ crop = None
    /\ video_file = None
    /\ MergerIdle /\ CompactorIdle /\ PlannerIdle /\ ScannerIdle /\ SelectorIdle /\ CallIdle

\* crop = self._calc_crop(roi, resize_width, resize_height)
CalcCropCall ==
    /\ pc = "crop"
    /\ crop' = CalcCrop(roi, resize_width, resize_height)
    /\ pc' = "cropped"
    /\ UNCHANGED <<roi, resize_width, resize_height, video_file, callVars,
                   mergerVars, compactorVars, plannerVars, scannerVars, selectorVars, resize_info>>

SpecCrop == CropInit /\ [][CalcCropCall]_vars

\* ------------------------------------------------- Crop Calculator (claims)
\* C8: for every region of interest with x, y, width, height >= 0 and every
\* positive resize width and height, the crop _calc_crop returns has x >= 0
\* and y >= 0.
C8_CropNonNegative ==
    pc = "cropped" => (crop.x >= 0 /\ crop.y >= 0)

\* C8 witness: a region whose centre is nearer to the left and the top edge
\* than half the crop, so that both clamps act.
C8_Witness ==
    /\ pc = "cropped"
    /\ roi.x + roi.width \div 2 < resize_width \div 2
    /\ roi.y + roi.height \div 2 < resize_height \div 2
    /\ crop.x = 0 /\ crop.y = 0

\* --------------------------------------------------- Capacity Planner (code)
\* Byte counts are kept in units of ByteUnit bytes (TLC's integers are 32
\* bits wide, the budgets are not); the videos of PlannerVideos have frame
\* sizes that are multiples of it, so every quotient is the code's.
ByteUnit == 100
FACE_DETECT_WIDTH == 960
\* free_gpu_memory = 800000000 and free_cpu_memory = 8000000000 bytes
free_gpu_memory == 8 * (100000000 \div ByteUnit)
free_cpu_memory == 80 * (100000000 \div ByteUnit)

\* ml.utils.image.calc_img_bytes: height x width x channels bytes of uint8
CalcImgBytes(height, width, channels) == (height * width * channels) \div ByteUnit

\* downsample_factor = max(vid_width / FACE_DETECT_WIDTH, 1)
\* face_detect_height = int(height // downsample_factor)
FaceDetectHeight(video) ==
    IF video.width > FACE_DETECT_WIDTH
    THEN (video.height * FACE_DETECT_WIDTH) \div video.width
    ELSE video.height

TotalExtractBytes(video, n) == n * CalcImgBytes(video.height, video.width, 3)
TotalFaceDetectBytes(video, n) ==
    n * CalcImgBytes(FaceDetectHeight(video), FACE_DETECT_WIDTH, 3)

\* _calc_n_batches without the "+ 1"
CalcNBatchesFloor(video, n, cuda_available) ==
    IF cuda_available
    THEN Max(TotalExtractBytes(video, n) \div free_cpu_memory,
             TotalFaceDetectBytes(video, n) \div free_gpu_memory)
    ELSE Max((TotalExtractBytes(video, n) + TotalFaceDetectBytes(video, n))
                 \div free_cpu_memory, 0)

\* _calc_n_batches that counts the extraction batches only
CalcNBatchesExtractOnly(video, n, cuda_available) ==
    IF cuda_available
    THEN TotalExtractBytes(video, n) \div free_cpu_memory + 1
    ELSE (TotalExtractBytes(video, n) + TotalFaceDetectBytes(video, n))
             \div free_cpu_memory + 1

CalcNBatches(video, n, cuda_available) ==
    LET total_extract_bytes == TotalExtractBytes(video, n)
        total_face_detect_bytes == TotalFaceDetectBytes(video, n)
        n_extract_batches ==
            IF cuda_available
            THEN total_extract_bytes \div free_cpu_memory + 1
            ELSE (total_extract_bytes + total_face_detect_bytes) \div free_cpu_memory + 1
        n_face_detect_batches ==
            IF cuda_available
            THEN total_face_detect_bytes \div free_gpu_memory + 1
            ELSE 0
    IN  Max(n_extract_batches, n_face_detect_batches)

PlannerVideos ==
    {[width |-> 640, height |-> 1000], [width |-> 1920, height |-> 1080]}

PlannerInit ==
    /\ pc = "plan"
    /\ video_file \in PlannerVideos
    /\ num_frames \in 0..MaxFrames
    /\ cuda \in BOOLEAN
    /\ n_batches = None
    /\ MergerIdle /\ CompactorIdle /\ CropIdle /\ ScannerIdle /\ SelectorIdle /\ CallIdle

\* n_batches = self._calc_n_batches(video_file, num_frames)
CalcNBatchesCall ==
    /\ pc = "plan"
    /\ n_batches' = CalcNBatches(video_file, num_frames, cuda)
    /\ pc' = "planned"
    /\ UNCHANGED <<video_file, callVars, num_frames, cuda, mergerVars, compactorVars, cropVars, scannerVars, selectorVars, resize_info>>

SpecPlanner == PlannerInit /\ [][CalcNBatchesCall]_vars

\* ------------------------------------------------- Capacity Planner (claims)
Ceil(a, b) == (a + b - 1) \div b

\* E and D of the call, and E + D when there is no accelerator
PlanE == TotalExtractBytes(video_file, num_frames)
PlanD == TotalFaceDetectBytes(video_file, num_frames)

\* max(ceil(E / CPU_budget), ceil(D / accelerator_budget)), at least 1;
\* ceil((E + D) / CPU_budget), at least 1, without an accelerator
CeilFormula ==
    IF cuda
    THEN Max(Max(Ceil(PlanE, free_cpu_memory), Ceil(PlanD, free_gpu_memory)), 1)
    ELSE Max(Ceil(PlanE + PlanD, free_cpu_memory), 1)

FloorFormula ==
    IF cuda
    THEN Max(PlanE \div free_cpu_memory + 1, PlanD \div free_gpu_memory + 1)
    ELSE (PlanE + PlanD) \div free_cpu_memory + 1

\* some total of the call is a positive exact multiple of its budget
ExactMultiple ==
    IF cuda
    THEN \/ (PlanE > 0 /\ PlanE % free_cpu_memory = 0)
         \/ (PlanD > 0 /\ PlanD % free_gpu_memory = 0)
    ELSE PlanE + PlanD > 0 /\ (PlanE + PlanD) % free_cpu_memory = 0

\* C9 as stated: for every N >= 0 _calc_n_batches returns the ceil formula,
\* also where E or D is an exact multiple of the budget.
C9_CeilFormula ==
    pc = "planned" => n_batches = CeilFormula

\* C9 as amended: _calc_n_batches returns max(E // cpu + 1, D // gpu + 1)
\* ((E + D) // cpu + 1 without an accelerator); that is the ceil formula
\* unless a total is a positive exact multiple of its budget, and then at
\* most one batch more.
C9_FloorPlusOne ==
    pc = "planned"
        => /\ n_batches = FloorFormula
           /\ n_batches >= 1
           /\ CeilFormula <= n_batches /\ n_batches <= CeilFormula + 1
           /\ ~ExactMultiple => n_batches = CeilFormula

\* C9 witness: the detection bytes are a positive exact multiple of the
\* accelerator budget and the code plans one batch more than the ceiling.
C9_Witness ==
    /\ pc = "planned"
    /\ cuda
    /\ PlanD > 0 /\ PlanD % free_gpu_memory = 0
    /\ n_batches = CeilFormula + 1

\* frames_per_batch that is len(detect_secs) // n_batches
FramesPerBatchNoPlusOne(len, batches) == len \div batches

\* frames_per_batch = int(len(detect_secs) // n_batches + 1), and the length
\* of the longest of the slices
\* detect_secs[i * frames_per_batch : min((i + 1) * frames_per_batch, len)],
\* i = 0 .. upto
FramesPerBatch(len, batches) == len \div batches + 1

SliceLen(len, frames_per_batch, i) ==
    Max(0, Min((i + 1) * frames_per_batch, len) - Min(i * frames_per_batch, len))

RECURSIVE LargestBatch(_, _, _)
LargestBatch(len, frames_per_batch, upto) ==
    IF upto < 0 THEN 0
    ELSE Max(SliceLen(len, frames_per_batch, upto),
             LargestBatch(len, frames_per_batch, upto - 1))

\* Bytes of one raw frame and of one detection-resolution frame
ExtractFrameBytes == CalcImgBytes(video_file.height, video_file.width, 3)
DetectFrameBytes == CalcImgBytes(FaceDetectHeight(video_file), FACE_DETECT_WIDTH, 3)

\* The frames of the longest batch of the planned call
PlannedBatchFrames ==
    LargestBatch(num_frames, FramesPerBatch(num_frames, n_batches), n_batches - 1)

\* C15: with n = _calc_n_batches(N) and batches of N // n + 1 frames, the
\* bytes one batch holds exceed the applicable budget by at most the bytes of
\* one frame: raw frames against the CPU budget and detection-resolution
\* frames against the accelerator budget (without an accelerator, both
\* together against the CPU budget).
C15_BatchWithinBudget ==
    pc = "planned"
        => /\ PlannedBatchFrames * ExtractFrameBytes <= free_cpu_memory + ExtractFrameBytes
           /\ cuda => PlannedBatchFrames * DetectFrameBytes
                          <= free_gpu_memory + DetectFrameBytes
           /\ ~cuda => PlannedBatchFrames * (ExtractFrameBytes + DetectFrameBytes)
                           <= free_cpu_memory + ExtractFrameBytes + DetectFrameBytes

\* C15 witness: several batches were planned and the longest one holds more
\* detection bytes than the accelerator budget, by less than one frame.
C15_Witness ==
    /\ pc = "planned"
    /\ cuda
    /\ n_batches >= 2
    /\ PlannedBatchFrames * DetectFrameBytes > free_gpu_memory

\* ---------------------------------------------- Face Presence Scanner (code)
\* firstFaceSec is kept in eighths of a tick, so that
\* start_sec + (end_sec - start_sec) / 8 is exact.
SubPerTick == 8
SubPerSec == TicksPerSec * SubPerTick
sample_period == 1      \* seconds

Sub(ticks) == ticks * SubPerTick

\* Lines 310-316: the fields the Scanner adds to a segment.
ScanFields(seg) ==
    [firstFaceSec |-> Sub(seg.startTime) + (seg.endTime - seg.startTime),
     foundFace |-> FALSE, isAnalyzed |-> FALSE] @@ seg

\* num_samples that is not limited by the time left in the segment
NumSamplesWholePeriod(seg, bp) ==
    Max(1, (bp * SubPerSec) \div (sample_period * SubPerSec))

\* num_samples = max(1, int(min(batch_period, segment_secs_left) // sample_period))
NumSamples(seg, bp) ==
    Max(1, Min(bp * SubPerSec, Sub(seg.endTime) - seg.firstFaceSec)
               \div (sample_period * SubPerSec))

\* Lines 324-332: numSamples of every segment not yet analyzed.
WithNumSamples(segs, bp) ==
    [i \in 1..Len(segs) |->
        IF segs[i].isAnalyzed THEN segs[i]
        ELSE [numSamples |-> NumSamples(segs[i], bp)] @@ segs[i]]

\* len(detect_secs) up to segment i (exclusive): where its samples start
RECURSIVE SamplesBefore(_, _)
SamplesBefore(segs, i) ==
    IF i <= 1 THEN 0
    ELSE SamplesBefore(segs, i - 1)
         + (IF segs[i - 1].isAnalyzed THEN 0 ELSE segs[i - 1].numSamples)

\* Lines 324-331: detect_secs, the samples firstFaceSec + i * sample_period
\* of the segments 1..i not yet analyzed; each is kept with the segment whose
\* iteration appended it.
RECURSIVE DetectSecs(_, _)
DetectSecs(segs, i) ==
    IF i = 0 THEN <<>>
    ELSE DetectSecs(segs, i - 1)
         \o (IF segs[i].isAnalyzed THEN <<>>
             ELSE [k \in 1..segs[i].numSamples |->
                      [segment |-> i,
                       sec |-> segs[i].firstFaceSec + (k - 1) * sample_period * SubPerSec]])

\* _detect_faces for one batch (lines 472-503): no detection for no frame,
\* else one per frame, in the order of the frames.  answers[j] is TRUE when
\* the detector reports a face in the j-th frame.
DetectFaces(frames, answers) ==
    IF Len(frames) = 0 THEN <<>>
    ELSE [j \in 1..Len(frames) |-> [frame |-> frames[j], face |-> answers[j]]]

\* Lines 337-346: face_detections after the batches 0 .. upto, each the
\* slice detect_secs[i * frames_per_batch : min((i + 1) * frames_per_batch, len)];
\* faces holds the detector's answers in the order it is asked.
RECURSIVE FaceDetections(_, _, _, _)
FaceDetections(detect_secs, frames_per_batch, upto, faces) ==
    IF upto < 0 THEN <<>>
    ELSE LET before == FaceDetections(detect_secs, frames_per_batch, upto - 1, faces)
             frames == SubSeq(detect_secs,
                              Min(upto * frames_per_batch, Len(detect_secs)) + 1,
                              Min((upto + 1) * frames_per_batch, Len(detect_secs)))
         IN  before \o DetectFaces(frames, [j \in 1..Len(frames) |-> faces[Len(before) + j]])

\* Lines 336-346: the frames the n_batches slices
\* detect_secs[i * frames_per_batch : min((i + 1) * frames_per_batch, len)]
\* hand to extract_frames and _detect_faces, all batches together
RECURSIVE SlicedFrames(_, _, _)
SlicedFrames(len, frames_per_batch, i) ==
    IF i < 0 THEN 0
    ELSE SlicedFrames(len, frames_per_batch, i - 1)
         + Max(0, Min((i + 1) * frames_per_batch, len) - Min(i * frames_per_batch, len))

DetectedFrames(len, batches) ==
    SlicedFrames(len, FramesPerBatch(len, batches), batches - 1)

\* A miss that adds two sample periods to firstFaceSec.
AdvanceTwiceOnMiss(first_face_sec) == first_face_sec + 2 * sample_period * SubPerSec

\* On a miss: segment["firstFaceSec"] += sample_period
AdvanceOnMiss(first_face_sec) == first_face_sec + sample_period * SubPerSec

\* Lines 356-362: the samples of one segment, read from face_detections at
\* position idx onwards.
RECURSIVE ReadSamples(_, _, _, _)
ReadSamples(seg, face_detections, at, left) ==
    IF left = 0 THEN seg
    ELSE IF face_detections[at].face THEN [seg EXCEPT !.foundFace = TRUE]
    ELSE ReadSamples([seg EXCEPT !.firstFaceSec = AdvanceOnMiss(seg.firstFaceSec)],
                     face_detections, at + 1, left - 1)

\* Line 357: face_detections[idx] raises IndexError when the loop comes to
\* an idx past the end of the list.
RECURSIVE ReadRaises(_, _, _)
ReadRaises(face_detections, at, left) ==
    IF left = 0 THEN FALSE
    ELSE IF at > Len(face_detections) THEN TRUE
    ELSE IF face_detections[at].face THEN FALSE
    ELSE ReadRaises(face_detections, at + 1, left - 1)

\* firstFaceSec >= endTime - 0.25
AtSegmentEnd(seg) == seg.firstFaceSec >= Sub(seg.endTime) - Sub(QuarterSec)

\* The status update that resolves a segment only when a face was found.
IsAnalyzedFoundOnly(seg) == seg.foundFace

\* Lines 364-370
IsAnalyzed(seg) == seg.foundFace \/ AtSegmentEnd(seg)

\* Lines 349-371: one segment after its samples were read
ScanSegment(seg, face_detections, at) ==
    LET read == ReadSamples(seg, face_detections, at, seg.numSamples)
    IN  [read EXCEPT !.isAnalyzed = IsAnalyzed(read)]

\* batch_period = (batch_period + 3) * 2
NextBatchPeriod(bp) == (bp + 3) * 2

\* Lines 376-378: del segment["numSamples"], del segment["isAnalyzed"]
ScannedWithIsAnalyzed(seg) == Del(seg, "numSamples")

Scanned(seg) == Del(Del(seg, "numSamples"), "isAnalyzed")

\* The boundaries of the Scanner's inputs, in ticks: segments of 1/8 s to 6 s.
ScanTicks == {0, 1, 8, 24, 48}

\* Segments as the Merger returns them for valid input.
ScannerInputs ==
    {SegmentsOf(SetToSeq(B)) :
        B \in {X \in SUBSET ScanTicks :
                   Cardinality(X) >= 2 /\ Cardinality(X) <= MaxScanSegments + 1}}

ScannerVideos == {[width |-> 640, height |-> 1000]}

ScannerInit ==
    /\ pc = "scan_call"
    /\ video_file \in ScannerVideos
    /\ cuda \in BOOLEAN
    /\ in_segments \in ScannerInputs
    /\ segments = in_segments
    /\ batch_period = 0 /\ analyzed_segments = 0   \* not yet assigned
    /\ scan_rounds = <<>>
    /\ num_frames = 0 /\ n_batches = 0
    /\ merge_idx = None /\ iters_left = None
    /\ MergerIdle /\ CropIdle /\ SelectorIdle /\ CallIdle

\* Lines 310-320
ScanStart ==
    /\ pc = "scan_call"
    /\ segments' = [i \in 1..Len(segments) |-> ScanFields(segments[i])]
    /\ batch_period' = 1
    /\ analyzed_segments' = 0
    /\ scan_rounds' = <<>>
    /\ pc' = "scan"
    /\ UNCHANGED <<video_file, callVars, cuda, in_segments, num_frames, n_batches,
                   merge_idx, iters_left, mergerVars, cropVars, selectorVars, resize_info>>

\* One round of "while analyzed_segments < len(segments)"; the answers of
\* the detector for its frames are any (TRUE: the frame has a face).  The
\* locals of the round (sampled, detect_secs, batches, face_detections) are
\* bound as the only element of a set, so that each is computed once.
ScanRound ==
    /\ pc = "scan"
    /\ analyzed_segments < Len(segments)
    /\ batch_period <= MaxBatchPeriod
    /\ \E sampled \in {WithNumSamples(segments, batch_period)} :
       \E detect_secs \in {DetectSecs(sampled, Len(sampled))} :
       \E batches \in {CalcNBatches(video_file, Len(detect_secs), cuda)} :
       \E faces \in [1..DetectedFrames(Len(detect_secs), batches) -> BOOLEAN] :
       \E face_detections \in
               {FaceDetections(detect_secs, FramesPerBatch(Len(detect_secs), batches),
                               batches - 1, faces)} :
           /\ num_frames' = Len(detect_secs)
           /\ n_batches' = batches
           /\ scan_rounds' =
                  Append(scan_rounds,
                         [detect_secs |-> detect_secs,
                          face_detections |-> face_detections])
           /\ IF \E i \in 1..Len(sampled) :
                     /\ ~sampled[i].isAnalyzed
                     /\ ReadRaises(face_detections,
                                   SamplesBefore(sampled, i) + 1,
                                   sampled[i].numSamples)
              THEN /\ pc' = "IndexError"
                   /\ segments' = sampled
                   /\ UNCHANGED <<batch_period, analyzed_segments>>
              ELSE /\ segments' =
                          [i \in 1..Len(sampled) |->
                              IF sampled[i].isAnalyzed THEN sampled[i]
                              ELSE ScanSegment(sampled[i], face_detections,
                                               SamplesBefore(sampled, i) + 1)]
                   /\ analyzed_segments' =
                          analyzed_segments
                          + Cardinality({i \in 1..Len(sampled) :
                                ~sampled[i].isAnalyzed /\ segments'[i].isAnalyzed})
                   /\ batch_period' = NextBatchPeriod(batch_period)
                   /\ pc' = pc
    /\ UNCHANGED <<video_file, callVars, cuda, in_segments, merge_idx, iters_left,
                   mergerVars, cropVars, selectorVars, resize_info>>

\* Lines 376-380: the loop ends and the segments are returned.
ScanReturn ==
    /\ pc = "scan"
    /\ analyzed_segments >= Len(segments)
    /\ IF \A i \in 1..Len(segments) :
              HasKey(segments[i], "numSamples") /\ HasKey(segments[i], "isAnalyzed")
       THEN /\ segments' = [i \in 1..Len(segments) |-> Scanned(segments[i])]
            /\ pc' = "scanned"
       ELSE /\ pc' = "KeyError"   \* del of a key the segment does not have
            /\ UNCHANGED segments
    /\ UNCHANGED <<video_file, callVars, cuda, in_segments, num_frames, n_batches,
                   merge_idx, iters_left, mergerVars, cropVars, scannerVars, selectorVars, resize_info>>

ScannerNext == ScanStart \/ ScanRound \/ ScanReturn

SpecScanner == ScannerInit /\ [][ScannerNext]_vars

\* The loop is sequential code: a round that can run does run.
FairSpecScanner == SpecScanner /\ WF_vars(ScannerNext)

\* A video whose frames are so large that two of them exceed the CPU budget
\* and one exceeds the accelerator budget: the planner returns several
\* batches for a few timestamps, and more batches than timestamps, so that
\* some slices are empty.
ScannerTallVideos == {[width |-> 960, height |-> 700000]}

ScannerTallInit ==
    /\ pc = "scan_call"
    /\ video_file \in ScannerTallVideos
    /\ cuda \in BOOLEAN
    /\ in_segments \in ScannerInputs
    /\ segments = in_segments
    /\ batch_period = 0 /\ analyzed_segments = 0
    /\ scan_rounds = <<>>
    /\ num_frames = 0 /\ n_batches = 0
    /\ merge_idx = None /\ iters_left = None
    /\ MergerIdle /\ CropIdle /\ SelectorIdle /\ CallIdle

SpecScannerTall == ScannerTallInit /\ [][ScannerNext]_vars

\* -------------------------------------------- Face Presence Scanner (claims)
\* foundFace is true, or firstFaceSec >= endTime - 0.25
Resolved(seg) == seg.foundFace \/ AtSegmentEnd(seg)

\* C2: for every list of segments with startTime < endTime and every
\* sequence of detector answers, the while loop of the Scanner ends after
\* finitely many rounds, and then every segment is resolved.
C2_ScannerTerminates ==
    (pc = "scan") ~> (pc = "scanned" /\ \A i \in 1..Len(segments) : Resolved(segments[i]))

\* C2 witness: the Scanner returned after three rounds or more in which no
\* frame of any of several segments had a face.
C2_Witness ==
    /\ pc = "scanned"
    /\ Len(segments) >= 2
    /\ batch_period >= 50
    /\ \A i \in 1..Len(segments) : ~segments[i].foundFace

\* C11: a segment whose sampled frames all had no face ends the Scanner with
\* foundFace = false and firstFaceSec within 0.25 s of endTime
\* (|endTime - firstFaceSec| <= 0.25), whatever the segment's length.
C11_FacelessNearEnd ==
    pc = "scanned"
        => \A i \in 1..Len(segments) :
               ~segments[i].foundFace
                   => /\ Sub(segments[i].endTime) - segments[i].firstFaceSec <= Sub(QuarterSec)
                      /\ segments[i].firstFaceSec - Sub(segments[i].endTime) <= Sub(QuarterSec)

\* The samples of segment i in all rounds so far: the timestamp that was put
\* on detect_secs for it and the answer at the same position of
\* face_detections.
SamplesOf(i) ==
    UNION {{[sec |-> scan_rounds[r].detect_secs[j].sec,
             face |-> scan_rounds[r].face_detections[j].face] :
                j \in {k \in 1..Len(scan_rounds[r].detect_secs) :
                          scan_rounds[r].detect_secs[k].segment = i}} :
           r \in 1..Len(scan_rounds)}

\* firstFaceSec of a segment with a face is the timestamp of the first of its
\* samples with a face
FirstFaceIsFirstSample ==
    pc \in {"scan", "scanned"}
        => \A i \in 1..Len(segments) :
               segments[i].foundFace
                   => /\ [sec |-> segments[i].firstFaceSec, face |-> TRUE] \in SamplesOf(i)
                      /\ \A e \in SamplesOf(i) :
                             e.sec < segments[i].firstFaceSec => ~e.face

\* a round leaves a segment with a face as it was
FoundFaceIsKept ==
    \A i \in 1..Len(segments) :
        (pc = "scan" /\ pc' = "scan" /\ segments[i].foundFace)
            => /\ segments'[i].foundFace
               /\ segments'[i].firstFaceSec = segments[i].firstFaceSec

\* C18: when the Scanner finishes with foundFace = true for a segment,
\* firstFaceSec is the timestamp of a sample of that segment for which the
\* detector reported a face, every earlier sample of that segment, of this
\* and of earlier rounds, had no face, and later rounds never change the
\* segment's firstFaceSec and foundFace.
C18_FirstFace ==
    []FirstFaceIsFirstSample /\ [][FoundFaceIsKept]_vars

\* C18 witness: the Scanner returned a segment whose face was found in a
\* later round than the first, after misses in both rounds.
C18_Witness ==
    /\ pc = "scanned"
    /\ Len(scan_rounds) >= 2
    /\ \E i \in 1..Len(segments) :
           /\ segments[i].foundFace
           /\ [sec |-> segments[i].firstFaceSec, face |-> TRUE] \in SamplesOf(i)
           /\ Cardinality({e \in SamplesOf(i) : e.sec < segments[i].firstFaceSec}) >= 2
           /\ \E e \in SamplesOf(i) : e.sec > segments[i].firstFaceSec

\* C25: in every round, every timestamp the Scanner requests for a segment
\* with startTime < endTime satisfies startTime <= timestamp < endTime, also
\* when the forced minimum of one sample applies and when batch_period
\* exceeds the time left in the segment.
C25_SamplesInsideSegment ==
    pc \in {"scan", "scanned"}
        => \A r \in 1..Len(scan_rounds) :
               \A j \in 1..Len(scan_rounds[r].detect_secs) :
                   LET sample == scan_rounds[r].detect_secs[j]
                       seg == segments[sample.segment]
                   IN  /\ Sub(seg.startTime) <= sample.sec
                       /\ sample.sec < Sub(seg.endTime)

\* The timestamps of segment i in round r
RoundSamples(r, i) ==
    {scan_rounds[r].detect_secs[j].sec :
        j \in {k \in 1..Len(scan_rounds[r].detect_secs) :
                  scan_rounds[r].detect_secs[k].segment = i}}

\* C25 witness: a segment with less than a sample period left was sampled
\* once (the forced minimum), and another, in a round whose batch_period
\* exceeds the time it has left, up to less than two sample periods before
\* its end.
C25_Witness ==
    /\ pc = "scanned"
    /\ \E r \in 1..Len(scan_rounds), i \in 1..Len(segments) :
           /\ Cardinality(RoundSamples(r, i)) = 1
           /\ \A sec \in RoundSamples(r, i) :
                  Sub(segments[i].endTime) - sec < sample_period * SubPerSec
    /\ \E r \in 2..Len(scan_rounds), i \in 1..Len(segments) :
           /\ Cardinality(RoundSamples(r, i)) >= 3
           /\ \E sec \in RoundSamples(r, i) :
                  Sub(segments[i].endTime) - sec < 2 * sample_period * SubPerSec

\* every timestamp of detect_secs went to extraction and detection exactly
\* once and in order: face_detections is as long as detect_secs and its j-th
\* entry is the answer for the frame of the j-th timestamp
DetectionsAligned(round) ==
    /\ Len(round.face_detections) = Len(round.detect_secs)
    /\ \A j \in 1..Len(round.detect_secs) :
           round.face_detections[j].frame = round.detect_secs[j]

\* C19: in every round and for every batch count the planner returns, also
\* one larger than the number of timestamps, the slices of len // n + 1
\* timestamps pass every timestamp to extraction and detection exactly once
\* and in order, and the round goes on to read each segment's detections (no
\* read fails).
C19_BatchesCoverSamples ==
    /\ pc # "IndexError"
    /\ pc \in {"scan", "scanned"}
           => \A r \in 1..Len(scan_rounds) : DetectionsAligned(scan_rounds[r])

\* Some of the slices of a round with len timestamps is empty
SomeSliceEmpty(len, batches) ==
    \E i \in 0..(batches - 1) : SliceLen(len, FramesPerBatch(len, batches), i) = 0

\* C19 witness: a round of several timestamps in several batches, the last
\* of them empty, whose detections are aligned with its timestamps.
C19_Witness ==
    /\ pc = "scan"
    /\ n_batches >= 2
    /\ num_frames >= 2
    /\ SomeSliceEmpty(num_frames, n_batches)
    /\ Len(scan_rounds) >= 1
    /\ Len(Last(scan_rounds).detect_secs) = num_frames
    /\ DetectionsAligned(Last(scan_rounds))

\* ------------------------------------------ Active Speaker ROI Selector (code)
SAMPLES_PER_SEGMENT == 13

\* frames_left = int((analyze_end_sec - first_face_sec) * fps + 1), where
\* analyze_end_sec = end_sec - (end_sec - first_face_sec) / 8
FramesLeft(seg, fps) ==
    (7 * (Sub(seg.endTime) - seg.firstFaceSec) * fps) \div (8 * SubPerSec) + 1

\* num_samples = min(frames_left, self.SAMPLES_PER_SEGMENT)
SelectorSamples(seg, fps) == Min(FramesLeft(seg, fps), SAMPLES_PER_SEGMENT)

\* The choice of line 637 taken from range(0, frames_left)
SampleFrameChoicesFromZero(frames_left, num_samples) ==
    {SetToSeq(S) : S \in {X \in SUBSET (0..(frames_left - 1)) :
                              Cardinality(X) = num_samples - 1}}

\* Lines 636-638: what
\* np.sort(np.random.choice(range(1, frames_left), num_samples - 1, replace=False))
\* can return: num_samples - 1 different frame offsets, ascending
SampleFrameChoices(frames_left, num_samples) ==
    {SetToSeq(S) : S \in {X \in SUBSET (1..(frames_left - 1)) :
                              Cardinality(X) = num_samples - 1}}

\* The timestamps of a segment that start one frame after firstFaceSec
SegmentDetectSecsNoFirst(seg, sample_frames, fps) ==
    [k \in 1..(Len(sample_frames) + 1) |->
        seg.firstFaceSec + (k * SubPerSec) \div fps]

\* Lines 635-640: the timestamps the segment adds to detect_secs,
\* first_face_sec and first_face_sec + sample_frame / fps for every sampled
\* frame (in the Scanner's unit; fps divides SubPerSec in every input, so
\* the quotient is exact)
SegmentDetectSecs(seg, sample_frames, fps) ==
    <<seg.firstFaceSec>>
    \o [k \in 1..Len(sample_frames) |->
           seg.firstFaceSec + (sample_frames[k] * SubPerSec) \div fps]

\* The boxes [x1, y1, x2, y2] the detector reports, and its answers for one
\* frame: None (NoFaces here), or the boxes of one or two faces.  Which
\* frames np.random.choice samples (line 637) is part of that choice.
BoxA == <<10, 5, 30, 25>>
BoxB == <<16, 5, 36, 25>>
NoFaces == <<>>
FrameDetections == {NoFaces, <<BoxA>>, <<BoxB>>, <<BoxA, BoxB>>}

\* k = max(k, len(face_detection)) over the frames with a detection
MaxFaces(dets) ==
    LET sizes == {Len(dets[i]) : i \in 1..Len(dets)}
    IN  CHOOSE m \in sizes \cup {0} : \A n \in sizes : n <= m

\* bounding_boxes: the boxes of all frames, in frame order
RECURSIVE BoundingBoxes(_, _)
BoundingBoxes(dets, i) ==
    IF i = 0 THEN <<>>
    ELSE BoundingBoxes(dets, i - 1) \o dets[i]

RECURSIVE SumBoxes(_, _)
SumBoxes(boxes, i) ==
    IF i = 0 THEN <<0, 0, 0, 0>>
    ELSE LET rest == SumBoxes(boxes, i - 1)
         IN  [c \in 1..4 |-> rest[c] + boxes[i][c]]

\* np.mean(bounding_boxes, axis=0).astype(np.int16), and the Rect of it
MeanBox(boxes) ==
    LET total == SumBoxes(boxes, Len(boxes))
    IN  [c \in 1..4 |-> total[c] \div Len(boxes)]

BoxRect(box) == Rect(box[1], box[2], box[3] - box[1], box[4] - box[2])

\* KMeans(n_clusters=k).fit(bounding_boxes) for k = 2: the detector's boxes are
\* two points, so each cluster holds the copies of one of them; `order` is
\* the one of the two labellings KMeans returns.
Clusters(boxes, order) ==
    [c \in 1..2 |-> SelectSeq(boxes, LAMBDA b : b = order[c])]

\* The search of lines 744-750 that takes the last of the clusters with the
\* largest mouth_movement
RECURSIVE MostMovementLastOnTie(_, _, _, _)
MostMovementLastOnTie(mouth_movement, c, max_mouth_movement, best) ==
    IF c > Len(mouth_movement) THEN best
    ELSE IF mouth_movement[c] >= max_mouth_movement
    THEN MostMovementLastOnTie(mouth_movement, c + 1, mouth_movement[c], c)
    ELSE MostMovementLastOnTie(mouth_movement, c + 1, max_mouth_movement, best)

\* Lines 744-750: the cluster whose mouth moves most; 0 when no cluster's
\* mouth_movement exceeds 0 (segment_roi stays None).
RECURSIVE MostMovement(_, _, _, _)
MostMovement(mouth_movement, c, max_mouth_movement, best) ==
    IF c > Len(mouth_movement) THEN best
    ELSE IF mouth_movement[c] > max_mouth_movement
    THEN MostMovement(mouth_movement, c + 1, mouth_movement[c], c)
    ELSE MostMovement(mouth_movement, c + 1, max_mouth_movement, best)

\* Lines 753-769: the first cluster with the most boxes
RECURSIVE MostFrames(_, _, _, _)
MostFrames(groups, c, max_frames, best) ==
    IF c > Len(groups) THEN best
    ELSE IF Len(groups[c]) > max_frames
    THEN MostFrames(groups, c + 1, Len(groups[c]), c)
    ELSE MostFrames(groups, c + 1, max_frames, best)

\* _calc_mouth_movement's region: the Rects of the group's boxes, summed and
\* divided by their number
MeanRect(group) ==
    LET total == SumBoxes(group, Len(group))
        n == Len(group)
    IN  Rect(total[1] \div n, total[2] \div n,
             (total[3] - total[1]) \div n, (total[4] - total[2]) \div n)

\* Lines 716-771 for k >= 1.  mouth_movement[c] is the score
\* _calc_mouth_movement returns for cluster c.
RoiOfFaces(dets, order, mouth_movement) ==
    LET boxes == BoundingBoxes(dets, Len(dets))
        groups == Clusters(boxes, order)
        moving == MostMovement(mouth_movement, 1, 0, 0)
    IN  IF MaxFaces(dets) = 1 THEN BoxRect(MeanBox(boxes))
        ELSE IF moving # 0 THEN MeanRect(groups[moving])
        ELSE BoxRect(MeanBox(groups[MostFrames(groups, 1, 0, 0)]))

RoiError == [error |-> "FaceNetMediaPipeResizerError"]

\* _calc_segment_roi that takes an empty region where it should raise
CalcSegmentRoiNoRaise(dets, order, mouth_movement) ==
    IF MaxFaces(dets) = 0
    THEN Rect(0, 0, 0, 0)
    ELSE RoiOfFaces(dets, order, mouth_movement)

\* _calc_segment_roi: the region, or the error of line 713
CalcSegmentRoi(dets, order, mouth_movement) ==
    IF MaxFaces(dets) = 0
    THEN RoiError
    ELSE RoiOfFaces(dets, order, mouth_movement)

\* The default region in the top left corner of the frame
DefaultRoiTopLeft(video) ==
    Rect(0, 0, video.width \div 2, video.height \div 2)

\* The default region in the bottom right corner of the frame
DefaultRoiBottomRight(video) ==
    Rect(video.width \div 2, video.height \div 2, video.width \div 2, video.height \div 2)

\* Lines 662-667
DefaultRoi(video) ==
    Rect(video.width \div 4, video.height \div 4, video.width \div 2, video.height \div 2)

\* Lines 624-633: segment["numSamples"] = num_samples, for a segment with a
\* face only
WithSelectorSamples(seg, fps) ==
    IF seg.foundFace
    THEN [numSamples |-> SelectorSamples(seg, fps)] @@ seg
    ELSE seg

\* Lines 659, 668-674: numSamples is deleted where a face was found, then
\* foundFace and firstFaceSec; x and y are added
WithCrop(seg, c) ==
    LET read == IF seg.foundFace THEN Del(seg, "numSamples") ELSE seg
    IN  [x |-> c.x, y |-> c.y] @@ Del(Del(read, "foundFace"), "firstFaceSec")

MouthMovements == [1..2 -> 0..MaxMouthMovement]
KMeansOrders == {<<BoxA, BoxB>>, <<BoxB, BoxA>>}

\* The timestamps the Scanner requested, each with the detector's answer
ScannerAnswers ==
    UNION {{[sec |-> scan_rounds[r].face_detections[j].frame.sec,
             face |-> scan_rounds[r].face_detections[j].face] :
                j \in 1..Len(scan_rounds[r].face_detections)} :
           r \in 1..Len(scan_rounds)}

\* What extract_frames and _detect_faces (lines 644-646) can return for the
\* timestamps secs: any detections; those of a stable detector are a face
\* (not None, line 358) wherever the Scanner's answer for the same timestamp
\* was one, and None wherever it was None.
DetectorAnswers(secs) ==
    {dets \in [1..Len(secs) -> FrameDetections] :
        detector_stable
            => \A j \in 1..Len(secs) : \A e \in ScannerAnswers :
                   e.sec = secs[j] => ((dets[j] # NoFaces) = e.face)}

\* segments_per_batch that is num_segments // n_batches
SegmentsPerBatchNoPlusOne(num_segments, batches) == num_segments \div batches

\* segments_per_batch = int(num_segments // n_batches + 1)
SegmentsPerBatch(num_segments, batches) == num_segments \div batches + 1

\* Lines 556-570: the number of segments in the slices
\* segments[i * segments_per_batch : min((i + 1) * segments_per_batch, len)]
\* for i = from, ..., n_batches - 1, up to the first empty slice (the break
\* of line 564).  The slices are consecutive from 0, so what
\* _add_x_y_coords_to_each_segment handles and returns is that prefix.
RECURSIVE CoveredSegments(_, _, _, _)
CoveredSegments(num_segments, per_batch, from, batches) ==
    IF from >= batches THEN 0
    ELSE LET cur == Max(0, Min((from + 1) * per_batch, num_segments)
                           - Min(from * per_batch, num_segments))
         IN  IF cur = 0 THEN 0
             ELSE cur + CoveredSegments(num_segments, per_batch, from + 1, batches)

SelectorCovered ==
    CoveredSegments(Len(segments), SegmentsPerBatch(Len(segments), n_batches),
                    0, n_batches)

\* One iteration of the loop of line 651, over the batches of
\* _add_x_y_coords_to_each_segment in turn, with the segment's part of the
\* loop of line 623: its sampled frames, and the detections of those frames.
SelectSegment ==
    /\ pc = "select"
    /\ sel_pos <= SelectorCovered
    /\ LET fps == video_file.fps
           seg == WithSelectorSamples(segments[sel_pos], fps)
       IN
       \E sample_frames \in (IF seg.foundFace
                             THEN SampleFrameChoices(FramesLeft(seg, fps), seg.numSamples)
                             ELSE {<<>>}) :
       LET secs == IF seg.foundFace
                   THEN SegmentDetectSecs(seg, sample_frames, fps)
                   ELSE <<>>
       IN
       \E dets \in DetectorAnswers(secs) :
       \E order \in (IF MaxFaces(dets) > 1 THEN KMeansOrders ELSE {<<>>}),
          mouth_movement \in (IF MaxFaces(dets) > 1 THEN MouthMovements ELSE {<<>>}) :
           LET region == IF seg.foundFace
                         THEN CalcSegmentRoi(dets, order, mouth_movement)
                         ELSE DefaultRoi(video_file)
           IN  /\ seg_detect_secs' = secs
               /\ seg_detections' = dets
               /\ kmeans_order' = order
               /\ mouth_movements' = mouth_movement
               /\ IF region = RoiError
                  THEN /\ pc' = RoiError.error
                       /\ UNCHANGED <<segments, sel_pos, roi, crop>>
                  ELSE /\ roi' = region
                       /\ crop' = CalcCrop(region, resize_width, resize_height)
                       /\ segments' = [segments EXCEPT ![sel_pos] = WithCrop(seg, crop')]
                       /\ sel_pos' = sel_pos + 1
                       /\ pc' = pc
    /\ UNCHANGED <<video_file, callVars, in_segments, merge_idx, iters_left, resize_width,
                   resize_height, mergerVars, plannerVars, scannerVars, resize_info>>

\* return segments_with_xy_coords
SelectReturn ==
    /\ pc = "select"
    /\ sel_pos > SelectorCovered
    /\ segments' = SubSeq(segments, 1, SelectorCovered)
    /\ pc' = "selected"
    /\ UNCHANGED <<video_file, callVars, in_segments, merge_idx, iters_left, mergerVars, cropVars, plannerVars,
                   scannerVars, selectorVars, resize_info>>

\* The Selector's sampling alone: one segment as the Scanner returns it with
\* a face found.  firstFaceSec is startTime + (endTime - startTime) / 8 plus
\* the sample periods of the misses before it; after a miss the Scanner goes
\* on only while firstFaceSec < endTime - 0.25 (lines 364-367).  The
\* segments are 1/8 s to 2.5 s long and the frame rates 1 to 8 per second, so
\* that frames_left goes from 1 to above SAMPLES_PER_SEGMENT.
SamplerTicks == {1, 8, 16, 19, 20}
SamplerFps == {1, 2, 4, 8}
SamplerSegments ==
    UNION {{[ScanFields(SegmentsOf(<<0, end>>)[1])
                EXCEPT !.foundFace = TRUE,
                       !.firstFaceSec = @ + misses * sample_period * SubPerSec] :
               misses \in {m \in 0..2 :
                              m = 0 \/ ~AtSegmentEnd([endTime |-> end,
                                  firstFaceSec |-> end + m * sample_period * SubPerSec])}} :
           end \in SamplerTicks}

SamplerInit ==
    /\ pc = "sample"
    /\ video_file \in {[width |-> 640, height |-> 1000, fps |-> f] : f \in SamplerFps}
    /\ in_segments \in {<<Scanned(seg)>> : seg \in SamplerSegments}
    /\ segments = in_segments
    /\ sel_pos = 1
    /\ seg_detect_secs = <<>> /\ seg_detections = <<>>
    /\ kmeans_order = <<>> /\ mouth_movements = <<>>
    /\ resize_info = None
    /\ merge_idx = None /\ iters_left = None
    /\ MergerIdle /\ CropIdle /\ PlannerIdle /\ ScannerIdle /\ CallIdle

\* Lines 623-640 for one segment with a face
SampleSegment ==
    /\ pc = "sample"
    /\ segments[sel_pos].foundFace
    /\ LET fps == video_file.fps
           seg == WithSelectorSamples(segments[sel_pos], fps)
       IN  \E sample_frames \in SampleFrameChoices(FramesLeft(seg, fps), seg.numSamples) :
               /\ seg_detect_secs' = SegmentDetectSecs(seg, sample_frames, fps)
               /\ segments' = [segments EXCEPT ![sel_pos] = seg]
    /\ pc' = "sampled"
    /\ UNCHANGED <<video_file, callVars, in_segments, merge_idx, iters_left, sel_pos,
                   seg_detections, kmeans_order, mouth_movements, resize_info,
                   mergerVars, cropVars, plannerVars, scannerVars>>

SpecSampler == SamplerInit /\ [][SampleSegment]_vars

\* ------------------------------------------------ Segment Compactor (code)
Abs(n) == IF n < 0 THEN -n ELSE n

\* (x_diff / video_file.get_width_pixels()) < 0.04, in integers: 0.04 = 1/25
SameX(cur_x, next_x, width) == 25 * Abs(cur_x - next_x) < width

\* The crop positions of the Compactor's inputs.
CropXs == 0..MaxX
CropYs == {0, 1}

CompactorVideos == {[width |-> 50, height |-> 50], [width |-> 100, height |-> 50]}

\* Segments as the Selector returns them: contiguous, each with x and y.
CompactorInputs ==
    UNION {[1..n -> [startTime : {0}, endTime : {0}, speakers : {{1}},
                     x : CropXs, y : CropYs]] : n \in 0..MaxCompactSegments}

WithTimes(segs) ==
    [i \in 1..Len(segs) |->
        [segs[i] EXCEPT !.startTime = i - 1, !.endTime = i, !.speakers = {i}]]

\* The loop body that drops the right segment of a similar pair and leaves
\* the left one's endTime as it was.
CompactAtDropNext(segs, i, width) ==
    IF SameX(segs[i].x, segs[i + 1].x, width) /\ segs[i].y = segs[i + 1].y
    THEN SubSeq([segs EXCEPT ![i].x = (segs[i].x + segs[i + 1].x) \div 2], 1, i)
         \o SubSeq(segs, i + 2, Len(segs))
    ELSE segs

\* The loop body that merges a similar pair and keeps the left segment's x.
CompactAtKeepX(segs, i, width) ==
    IF SameX(segs[i].x, segs[i + 1].x, width) /\ segs[i].y = segs[i + 1].y
    THEN SubSeq([segs EXCEPT ![i].endTime = segs[i + 1].endTime], 1, i)
         \o SubSeq(segs, i + 2, Len(segs))
    ELSE segs

\* The loop body that averages x only when it merges the pair.
CompactAtAverageOnMerge(segs, i, width) ==
    IF SameX(segs[i].x, segs[i + 1].x, width) /\ segs[i].y = segs[i + 1].y
    THEN SubSeq([segs EXCEPT ![i].x = (segs[i].x + segs[i + 1].x) \div 2,
                             ![i].endTime = segs[i + 1].endTime], 1, i)
         \o SubSeq(segs, i + 2, Len(segs))
    ELSE segs

\* The body of the for loop: the list after one iteration at cursor i.
\* segments[idx]["x"] is averaged whenever the x positions are close, merged
\* or not.
CompactAt(segs, i, width) ==
    LET cur_x == segs[i].x
        next_x == segs[i + 1].x
        same_x == SameX(cur_x, next_x, width)
        averaged == IF same_x
                    THEN [segs EXCEPT ![i].x = (cur_x + next_x) \div 2]
                    ELSE segs
        same_y == averaged[i].y = averaged[i + 1].y
    IN  IF same_x /\ same_y
        THEN SubSeq([averaged EXCEPT ![i].endTime = averaged[i + 1].endTime], 1, i)
             \o SubSeq(averaged, i + 2, Len(averaged))
        ELSE averaged

\* idx after the iteration: it stays when the pair was merged
CursorAfter(segs, i, width) ==
    IF SameX(segs[i].x, segs[i + 1].x, width) /\ segs[i].y = segs[i + 1].y
    THEN i
    ELSE i + 1

CompactorInit ==
    /\ pc = "compact"
    /\ video_file \in CompactorVideos
    /\ in_segments \in {WithTimes(s) : s \in CompactorInputs}
    /\ segments = in_segments
    /\ merge_idx = 1
    /\ iters_left = IF Len(in_segments) = 0 THEN 0 ELSE Len(in_segments) - 1
    /\ MergerIdle /\ CropIdle /\ PlannerIdle /\ ScannerIdle /\ SelectorIdle /\ CallIdle

\* One iteration of "for _ in range(len(segments) - 1)".
CompactStep ==
    /\ pc = "compact"
    /\ iters_left > 0
    /\ segments' = CompactAt(segments, merge_idx, video_file.width)
    /\ merge_idx' = CursorAfter(segments, merge_idx, video_file.width)
    /\ iters_left' = iters_left - 1
    /\ UNCHANGED <<pc, video_file, callVars, in_segments, mergerVars, cropVars, plannerVars, scannerVars, selectorVars, resize_info>>

\* return segments
CompactReturn ==
    /\ pc = "compact"
    /\ iters_left = 0
    /\ pc' = "compacted"
    /\ UNCHANGED <<video_file, callVars, compactorVars, mergerVars, cropVars, plannerVars, scannerVars, selectorVars, resize_info>>

CompactorNext == CompactStep \/ CompactReturn

SpecCompactor == CompactorInit /\ [][CompactorNext]_vars

\* ---------------------------------------------- Segment Compactor (claims)
\* C3: in the list _merge_identical_segments returns, no two adjacent
\* segments have both the same x (difference below 4% of the source width)
\* and the same y.
C3_FullyCompacted ==
    pc = "compacted"
        => \A i \in 1..(Len(segments) - 1) :
               ~(/\ SameX(segments[i].x, segments[i + 1].x, video_file.width)
                 /\ segments[i].y = segments[i + 1].y)

\* C12: for a contiguous input the list _merge_identical_segments returns
\* has no more segments than the input, is contiguous, keeps the first
\* startTime and the last endTime, and has only boundaries of the input.
C12_CompactorCoarsens ==
    pc = "compacted"
        => /\ Len(segments) <= Len(in_segments)
           /\ Contiguous(segments)
           /\ (Len(segments) = 0) = (Len(in_segments) = 0)
           /\ Len(in_segments) > 0
                  => /\ FirstStart(segments) = FirstStart(in_segments)
                     /\ LastEnd(segments) = LastEnd(in_segments)
           /\ Boundaries(segments) \subseteq Boundaries(in_segments)

\* C12 witness: some pairs were merged and some were not.
C12_Witness ==
    /\ pc = "compacted"
    /\ Len(in_segments) >= 3
    /\ Len(segments) >= 2
    /\ Len(segments) < Len(in_segments)
    /\ \E i \in 1..Len(segments) : segments[i].endTime - segments[i].startTime >= 2

\* The input is two segments with x less than 4% of the width apart and the
\* same y.
SimilarPair ==
    /\ Len(in_segments) = 2
    /\ SameX(in_segments[1].x, in_segments[2].x, video_file.width)
    /\ in_segments[1].y = in_segments[2].y

\* C17: for an input of two adjacent segments with x less than 4% of the
\* source width apart and equal y, _merge_identical_segments returns one
\* segment with x = floor((x1 + x2) / 2), the first segment's y and startTime
\* and the second segment's endTime.
C17_PairMerged ==
    (pc = "compacted" /\ SimilarPair)
        => /\ Len(segments) = 1
           /\ segments[1].x = (in_segments[1].x + in_segments[2].x) \div 2
           /\ segments[1].y = in_segments[1].y
           /\ segments[1].startTime = in_segments[1].startTime
           /\ segments[1].endTime = in_segments[2].endTime

\* C17 witness: a merged pair whose x values have an odd sum, so that the
\* average was rounded down.
C17_Witness ==
    /\ pc = "compacted"
    /\ SimilarPair
    /\ (in_segments[1].x + in_segments[2].x) % 2 = 1
    /\ in_segments[1].x > in_segments[2].x
    /\ Len(segments) = 1
    /\ segments[1].x = in_segments[2].x + (in_segments[1].x - in_segments[2].x) \div 2

\* An iteration of the Compactor's loop that does not merge the pair at idx
NotMergedStep ==
    /\ pc = "compact" /\ iters_left > 0
    /\ Len(segments') = Len(segments)

\* C27 as stated: a segment's x is replaced by an average only when the
\* segment is merged with its right neighbour; for an adjacent pair that is
\* not merged (for example x within 4% of the width but different y) both
\* segments keep their x and y.
C27_XOnlyOnMerge ==
    [][NotMergedStep
          => \A j \in 1..Len(segments) :
                 segments'[j].x = segments[j].x /\ segments'[j].y = segments[j].y]_vars

\* C27 as amended: the x of the segment at idx is replaced by the floor
\* average of its x and its right neighbour's whenever the two are less than
\* 4% of the width apart, whether the pair is merged or not; for a pair that
\* is not merged the left segment keeps its y, and its x unless the x
\* positions are that close, the right segment keeps its x and y, and no
\* other segment changes.
C27_XAveragedWhenClose ==
    [][NotMergedStep
          => LET cur == segments[merge_idx]
                 next == segments[merge_idx + 1]
             IN  /\ segments'[merge_idx].y = cur.y
                 /\ segments'[merge_idx].x =
                        (IF SameX(cur.x, next.x, video_file.width)
                         THEN (cur.x + next.x) \div 2
                         ELSE cur.x)
                 /\ \A j \in 1..Len(segments) : j # merge_idx => segments'[j] = segments[j]
                 /\ SameX(cur.x, next.x, video_file.width) => cur.y # next.y]_vars

\* C27 witness: two segments with close x and different y were not merged,
\* and the first one's x is the average, not its own.
C27_Witness ==
    /\ pc = "compacted"
    /\ Len(in_segments) = 2 /\ Len(segments) = 2
    /\ SameX(in_segments[1].x, in_segments[2].x, video_file.width)
    /\ in_segments[1].y # in_segments[2].y
    /\ segments[1].x = (in_segments[1].x + in_segments[2].x) \div 2
    /\ segments[1].x # in_segments[1].x
    /\ segments[2].x = in_segments[2].x

\* ------------------------------------------------------- Orchestrator (code)
\* aspect_ratio: tuple = (9, 16)
DefaultAspectRatio == <<9, 16>>

\* _calc_resize_width_and_height_pixels with its two branches exchanged
CalcResizeKeepsWrongSide(original_width, original_height, ratio) ==
    IF original_width * ratio[2] > original_height * ratio[1]
    THEN <<original_width, (original_width * ratio[2]) \div ratio[1]>>
    ELSE <<(original_height * ratio[1]) \div ratio[2], original_height>>

\* _calc_resize_width_and_height_pixels: <<resize_width, resize_height>>
CalcResizeWidthAndHeightPixels(original_width, original_height, ratio) ==
    LET resize_ar_width == ratio[1]
        resize_ar_height == ratio[2]
    IN  \* original_width / original_height > resize_ar_width / resize_ar_height
        IF original_width * resize_ar_height > original_height * resize_ar_width
        THEN <<(original_height * resize_ar_width) \div resize_ar_height, original_height>>
        ELSE <<original_width, (original_width * resize_ar_height) \div resize_ar_width>>

\* The calls of resize the model follows through all stages: videos of 1
\* frame per second, one small and two whose frames fill the memory budgets
\* (the Selector then plans 2 batches for 3 segments, and more batches than
\* there are segments), with speaker segments of 1 to 3 seconds.
ResizeVideos ==
    {[width |-> 100, height |-> 50, fps |-> 1],
     [width |-> 10000, height |-> 10000, fps |-> 1],
     [width |-> 20000, height |-> 30000, fps |-> 1]}
ResizeTicks == {0, 8, 24}
ResizeSpeakerSegments ==
    {SegmentsOf(SetToSeq(B)) : B \in {X \in SUBSET ResizeTicks : Cardinality(X) >= 2}}
ResizeSceneChanges == {<<>>, <<9>>, <<16>>, <<25>>}

ResizeInit ==
    /\ pc = "resize"
    /\ video_file \in ResizeVideos
    /\ cuda = FALSE
    /\ orig_segments \in ResizeSpeakerSegments
    /\ speaker_segments = orig_segments
    /\ scene_changes \in ResizeSceneChanges
    /\ sc_pos = 1 /\ segments_idx = 1
    /\ aspect_ratio = DefaultAspectRatio
    /\ detector_stable \in BOOLEAN
    /\ CompactorIdle /\ CropIdle /\ ScannerIdle /\ SelectorIdle
    /\ num_frames = None /\ n_batches = None

\* Lines 106-124: the resize dimensions, then the call of the Merger
ResizeCall ==
    /\ pc = "resize"
    /\ LET dims == CalcResizeWidthAndHeightPixels(video_file.width, video_file.height,
                                                  aspect_ratio)
       IN  resize_width' = dims[1] /\ resize_height' = dims[2]
    /\ pc' = "merge"
    /\ UNCHANGED <<video_file, callVars, mergerVars, compactorVars, roi, crop, plannerVars,
                   scannerVars, selectorVars, resize_info>>

\* Lines 121-130: the Merger's list goes to the Scanner
ResizeMerged ==
    /\ pc = "merged"
    /\ segments' = speaker_segments
    /\ in_segments' = speaker_segments
    /\ pc' = "scan_call"
    /\ UNCHANGED <<video_file, callVars, mergerVars, merge_idx, iters_left, cropVars, plannerVars,
                   scannerVars, selectorVars, resize_info>>

\* Lines 135-140 and 551-556: the Scanner's list goes to the Selector
ResizeScanned ==
    /\ pc = "scanned"
    /\ num_frames' = Len(segments) * SAMPLES_PER_SEGMENT
    /\ n_batches' = CalcNBatches(video_file, num_frames', cuda)
    /\ sel_pos' = 1
    /\ seg_detect_secs' = <<>>
    /\ seg_detections' = <<>>
    /\ kmeans_order' = <<>>
    /\ mouth_movements' = <<>>
    /\ pc' = "select"
    /\ UNCHANGED <<video_file, callVars, cuda, mergerVars, compactorVars, cropVars, scannerVars,
                   resize_info>>

\* Lines 142-144 and 907: the Selector's list goes to the Compactor
ResizeSelected ==
    /\ pc = "selected"
    /\ in_segments' = segments
    /\ merge_idx' = 1
    /\ iters_left' = IF Len(segments) = 0 THEN 0 ELSE Len(segments) - 1
    /\ pc' = "compact"
    /\ UNCHANGED <<video_file, callVars, segments, mergerVars, cropVars, plannerVars, scannerVars,
                   selectorVars, resize_info>>

\* Lines 149-157
ResizeReturn ==
    /\ pc = "compacted"
    /\ resize_info' = [originalWidth |-> video_file.width,
                       originalHeight |-> video_file.height,
                       resizeWidth |-> resize_width,
                       resizeHeight |-> resize_height,
                       segments |-> segments]
    /\ pc' = "returned"
    /\ UNCHANGED <<video_file, callVars, mergerVars, compactorVars, cropVars, plannerVars,
                   scannerVars, selectorVars>>

ResizeNext ==
    \/ ResizeCall \/ MergeStep \/ MergeReturn
    \/ ResizeMerged \/ ScanStart \/ ScanRound \/ ScanReturn
    \/ ResizeScanned \/ SelectSegment \/ SelectReturn
    \/ ResizeSelected \/ CompactStep \/ CompactReturn
    \/ ResizeReturn

SpecResize == ResizeInit /\ [][ResizeNext]_vars

\* The resize dimensions and the crop alone, for every source frame of up to
\* MaxPixels x MaxPixels pixels and every aspect ratio of terms up to MaxRatio.
FrameVideos == [width : 1..MaxPixels, height : 1..MaxPixels]
AspectRatios == (1..MaxRatio) \X (1..MaxRatio)

\* The regions of interest that lie inside the frame of a video
FrameRegions(video) ==
    {r \in [x : 0..video.width, y : 0..video.height,
            width : 0..video.width, height : 0..video.height] :
        r.x + r.width <= video.width /\ r.y + r.height <= video.height}

FrameInit ==
    /\ pc = "frame"
    /\ video_file \in FrameVideos
    /\ aspect_ratio \in AspectRatios
    /\ detector_stable = None
    /\ MergerIdle /\ CompactorIdle /\ CropIdle /\ PlannerIdle /\ ScannerIdle /\ SelectorIdle

\* Lines 110-116
CalcResizeCall ==
    /\ pc = "frame"
    /\ LET dims == CalcResizeWidthAndHeightPixels(video_file.width, video_file.height,
                                                  aspect_ratio)
       IN  resize_width' = dims[1] /\ resize_height' = dims[2]
    /\ pc' = "framed"
    /\ UNCHANGED <<video_file, callVars, mergerVars, compactorVars, roi, crop, plannerVars,
                   scannerVars, selectorVars, resize_info>>

\* Lines 653-672 for one segment: the region of a face anywhere inside the
\* frame or the default region, and its crop
FrameCrop ==
    /\ pc = "framed"
    /\ \E region \in FrameRegions(video_file) \cup {DefaultRoi(video_file)} :
           /\ roi' = region
           /\ crop' = CalcCrop(region, resize_width, resize_height)
    /\ pc' = "cropped"
    /\ UNCHANGED <<video_file, callVars, resize_width, resize_height, mergerVars,
                   compactorVars, plannerVars, scannerVars, selectorVars, resize_info>>

FrameNext == CalcResizeCall \/ FrameCrop

SpecFrame == FrameInit /\ [][FrameNext]_vars

\* ------------------------------------------------------ Orchestrator (claims)
\* Every frame the Selector sampled of the segment it last handled came
\* back without a bounding box.
NoBoxInAnySample ==
    /\ Len(seg_detections) > 0
    /\ \A i \in 1..Len(seg_detections) : seg_detections[i] = NoFaces

Raised == pc = RoiError.error

\* C7: when every sampled frame of a segment with foundFace = true yields no
\* bounding box, _calc_segment_roi raises FaceNetMediaPipeResizerError; the
\* error leaves resize, which takes no further step and returns no result,
\* whatever the other segments contain.
C7_NoFaceAborts ==
    /\ (pc \in {"select", "selected", "compact", "compacted", "returned", RoiError.error}
            /\ NoBoxInAnySample) => Raised
    /\ Raised => (resize_info = None /\ ~ENABLED ResizeNext)

\* C7 witness: the error was raised at the second segment or later, after the
\* Selector gave an earlier segment its crop.
C7_Witness ==
    /\ Raised
    /\ NoBoxInAnySample
    /\ sel_pos > 1
    /\ Len(segments) > sel_pos
    /\ resize_info = None

\* The result of resize has no segment with a negative x or y.
ResizeNonNegative ==
    pc = "returned"
        => \A i \in 1..Len(resize_info.segments) :
               resize_info.segments[i].x >= 0 /\ resize_info.segments[i].y >= 0
\* The list of the later stages has the segments of the Merger's list: as
\* many, in its order, with its startTime, endTime and speakers.
SamePartition(segs, merged) ==
    /\ Len(segs) = Len(merged)
    /\ \A i \in 1..Len(segs) :
           /\ segs[i].startTime = merged[i].startTime
           /\ segs[i].endTime = merged[i].endTime
           /\ segs[i].speakers = merged[i].speakers

\* C13: neither the Scanner nor the Selector, for any batch count the planner
\* returns, changes the number of segments, their order, their startTime,
\* endTime or speakers: the list is the Merger's partition throughout and
\* after both stages.
C13_PartitionUntouched ==
    pc \in {"scan_call", "scan", "scanned", "select", "selected"}
        => SamePartition(segments, speaker_segments)

\* C13 witness: the Selector returned three segments it handled in two
\* batches, one of them with a face found.
C13_Witness ==
    /\ pc = "selected"
    /\ n_batches = 2
    /\ Len(segments) = 3
    /\ Len(seg_detections) > 0
    /\ SamePartition(segments, speaker_segments)

\* C13 second witness: the planner returned more batches than there are
\* segments.
ManyBatchesSelected ==
    pc = "selected" /\ n_batches > Len(segments) /\ Len(segments) >= 2
\* The fields of a segment of the result
ResultFields == {"speakers", "startTime", "endTime", "x", "y"}

\* C14: each segment resize returns has exactly the fields speakers,
\* startTime, endTime, x and y; firstFaceSec, foundFace, isAnalyzed and
\* numSamples are removed, for segments with and without a face alike.
C14_ResultShape ==
    pc = "returned"
        => \A i \in 1..Len(resize_info.segments) :
               DOMAIN resize_info.segments[i] = ResultFields

\* C14 witness: a result with a segment whose face was found and a segment
\* without a face (it has the crop of the default region).
C14_Witness ==
    /\ pc = "returned"
    /\ Len(resize_info.segments) >= 2
    /\ \E i \in 1..Len(resize_info.segments) :
           resize_info.segments[i].x = CalcCrop(DefaultRoi(video_file),
                                                resize_width, resize_height).x
    /\ \E i \in 1..Len(resize_info.segments) :
           resize_info.segments[i].x # CalcCrop(DefaultRoi(video_file),
                                                resize_width, resize_height).x

\* ------------------------------------- Active Speaker ROI Selector (claims)
\* The stages in which the Selector's variables hold a segment's values
SelectorAt ==
    pc \in {"select", "selected", "compact", "compacted", "returned", RoiError.error}

\* The clusters of the segment the Selector read last
SegClusters ==
    Clusters(BoundingBoxes(seg_detections, Len(seg_detections)), kmeans_order)

\* c is the first index at which score is largest
FirstLargest(score, c) ==
    /\ \A d \in 1..Len(score) : score[d] <= score[c]
    /\ \A d \in 1..(c - 1) : score[d] < score[c]

\* C21: among k > 1 clusters, if some cluster's mouth-movement score is above
\* zero, _calc_segment_roi returns the averaged box of the first cluster
\* whose score is the largest; if every score is zero, the averaged box of
\* the first cluster with the most members; it always returns a region.
C21_ActiveSpeaker ==
    (SelectorAt /\ MaxFaces(seg_detections) > 1)
        => LET groups == SegClusters
               members == [c \in 1..Len(groups) |-> Len(groups[c])]
           IN  /\ pc # RoiError.error
               /\ (\E c \in 1..Len(groups) : mouth_movements[c] > 0)
                      => \E c \in 1..Len(groups) :
                             /\ FirstLargest(mouth_movements, c)
                             /\ roi = MeanRect(groups[c])
               /\ (\A c \in 1..Len(groups) : mouth_movements[c] = 0)
                      => \E c \in 1..Len(groups) :
                             /\ FirstLargest(members, c)
                             /\ roi = BoxRect(MeanBox(groups[c]))

\* C21 witness: two clusters with the same score above zero, the second with
\* more members; the region is the first cluster's.
C21_Witness ==
    /\ SelectorAt
    /\ MaxFaces(seg_detections) > 1
    /\ mouth_movements[1] > 0
    /\ mouth_movements[1] = mouth_movements[2]
    /\ Len(SegClusters[2]) > Len(SegClusters[1])
    /\ roi = MeanRect(SegClusters[1])
    /\ roi # MeanRect(SegClusters[2])

\* Two clusters without mouth movement, the second with more members: the
\* region is the second cluster's.
MostMembersChosen ==
    /\ SelectorAt
    /\ MaxFaces(seg_detections) > 1
    /\ \A c \in 1..2 : mouth_movements[c] = 0
    /\ Len(SegClusters[2]) > Len(SegClusters[1])
    /\ roi = BoxRect(MeanBox(SegClusters[2]))

\* The Selector is about to handle a segment without a face
FacelessNext ==
    /\ pc = "select"
    /\ sel_pos <= Len(segments)
    /\ ~segments[sel_pos].foundFace

\* The region x = W // 4, y = H // 4, width = W // 2, height = H // 2
CentredHalf ==
    Rect(video_file.width \div 4, video_file.height \div 4,
         video_file.width \div 2, video_file.height \div 2)

\* C26: every segment with foundFace = false gets its crop from the region
\* x = W // 4, y = H // 4, width = W // 2, height = H // 2, without any
\* detection result being used, so all face-less segments of one video get
\* the same x and y.
C26_DefaultRegion ==
    [][FacelessNext
          => /\ pc' = "select"
             /\ roi' = CentredHalf
             /\ seg_detect_secs' = <<>> /\ seg_detections' = <<>>
             /\ segments'[sel_pos].x
                    = Max((CentredHalf.x + CentredHalf.width \div 2) - resize_width \div 2, 0)
             /\ segments'[sel_pos].y
                    = Max((CentredHalf.y + CentredHalf.height \div 2) - resize_height \div 2, 0)]_vars

\* C26 witness: the Selector gave two segments without a face the same x and
\* y, after a segment with a face that got another x.
C26_Witness ==
    /\ pc = "selected"
    /\ Len(segments) = 3
    /\ Len(seg_detections) = 0
    /\ roi = CentredHalf
    /\ segments[2].x = segments[3].x /\ segments[2].y = segments[3].y
    /\ segments[3].x = crop.x /\ segments[3].y = crop.y
    /\ segments[1].x # segments[3].x

\* C22: when extraction and detection give the same answer each time the
\* same timestamp is requested, resize never raises the no-face error: the
\* first timestamp the Selector requests for a segment with foundFace = true
\* is firstFaceSec, a timestamp at which the Scanner saw a face.
C22_StableDetectorNoError ==
    /\ detector_stable => ~Raised
    /\ (SelectorAt /\ Len(seg_detect_secs) > 0)
           => [sec |-> seg_detect_secs[1], face |-> TRUE] \in ScannerAnswers

\* C22 witness: with a stable detector the Selector gave a segment its crop
\* whose only sample with a box was the one at firstFaceSec.
C22_Witness ==
    /\ pc = "select"
    /\ detector_stable
    /\ sel_pos > 1
    /\ Len(seg_detections) >= 2
    /\ seg_detections[1] # NoFaces
    /\ \A j \in 2..Len(seg_detections) : seg_detections[j] = NoFaces
    /\ DOMAIN segments[sel_pos - 1] = {"speakers", "startTime", "endTime", "x", "y"}

\* The end of the analysis window of a segment, times 8:
\* 8 * (end_sec - (end_sec - first_face_sec) / 8)
AnalyzeEndTimes8(seg) == 8 * Sub(seg.endTime) - (Sub(seg.endTime) - seg.firstFaceSec)

\* C24: for every segment with foundFace = true and every outcome of the
\* random choice, the Selector requests between 1 and 13 timestamps for the
\* segment, the first is firstFaceSec, they are strictly increasing, and none
\* is later than endTime - (endTime - firstFaceSec) / 8.
C24_SelectorSamples ==
    pc = "sampled"
        => LET seg == segments[sel_pos]
               secs == seg_detect_secs
           IN  /\ seg.firstFaceSec < Sub(seg.endTime)
               /\ 1 <= Len(secs) /\ Len(secs) <= 13
               /\ Len(secs) = seg.numSamples
               /\ secs[1] = seg.firstFaceSec
               /\ \A j \in 1..(Len(secs) - 1) : secs[j] < secs[j + 1]
               /\ \A j \in 1..Len(secs) : 8 * secs[j] <= AnalyzeEndTimes8(seg)

\* C24 witness: 13 timestamps chosen among more frames than that, the last
\* frame of the window among them and the frame after firstFaceSec not.
C24_Witness ==
    /\ pc = "sampled"
    /\ Len(seg_detect_secs) = SAMPLES_PER_SEGMENT
    /\ FramesLeft(segments[sel_pos], video_file.fps) > SAMPLES_PER_SEGMENT + 1
    /\ seg_detect_secs[2] > segments[sel_pos].firstFaceSec + SubPerSec \div video_file.fps
    /\ 8 * (Last(seg_detect_secs) + SubPerSec \div video_file.fps)
           > AnalyzeEndTimes8(segments[sel_pos])

\* ------------------------------------------- Resize target and crop (claims)
\* The region of interest lies inside the source frame
RoiInFrame ==
    /\ roi.x + roi.width <= video_file.width
    /\ roi.y + roi.height <= video_file.height

\* The crop centred on the region, before any clamp: its left and top edge
CentredX == (roi.x + roi.width \div 2) - (resize_width \div 2)
CentredY == (roi.y + roi.height \div 2) - (resize_height \div 2)

\* C23: _calc_crop applies no clamp against the right or bottom edge: where
\* the crop centred on a region inside the source frame passes the right or
\* the bottom edge, the crop it returns does so too (x + resize_width > source
\* width, y + resize_height > source height).
C23_NoUpperClamp ==
    (pc = "cropped" /\ RoiInFrame)
        => /\ CentredX + resize_width > video_file.width
                  => crop.x + resize_width > video_file.width
           /\ CentredY + resize_height > video_file.height
                  => crop.y + resize_height > video_file.height

\* C23 witness: a region inside the frame whose crop passes the right and the
\* bottom edge.
C23_Witness ==
    /\ pc = "cropped"
    /\ RoiInFrame
    /\ roi.width > 0 /\ roi.height > 0
    /\ crop.x + resize_width > video_file.width
    /\ crop.y + resize_height > video_file.height

\* C28: for every source size W, H >= 1 and every aspect ratio, with the
\* resize dimensions of _calc_resize_width_and_height_pixels, the crop of a
\* face-less segment (the default region) has 0 <= x, x + resize_width <= W,
\* 0 <= y and y + resize_height <= H.
C28_DefaultCropFits ==
    (pc = "cropped" /\ roi = DefaultRoi(video_file))
        => /\ 0 <= crop.x /\ crop.x + resize_width <= video_file.width
           /\ 0 <= crop.y /\ crop.y + resize_height <= video_file.height

\* C28 witness: a default crop that starts right of the left edge and ends
\* on the right edge of the frame.
C28_Witness ==
    /\ pc = "cropped"
    /\ roi = DefaultRoi(video_file)
    /\ crop.x > 0
    /\ crop.x + resize_width = video_file.width
    /\ crop.y = 0 /\ resize_height = video_file.height

\* The source is wider than the target ratio
SourceWider ==
    video_file.width * aspect_ratio[2] > video_file.height * aspect_ratio[1]

\* C29: for every source size W, H >= 1 and every aspect ratio of positive
\* integers, resize_width <= W and resize_height <= H; the height is the
\* source's when the source is wider than the target ratio, the width is the
\* source's otherwise.
C29_ResizeWithinSource ==
    pc \in {"framed", "cropped"}
        => /\ resize_width <= video_file.width
           /\ resize_height <= video_file.height
           /\ SourceWider => resize_height = video_file.height
           /\ ~SourceWider => resize_width = video_file.width

\* C29 witness: a source wider than the ratio, whose resize width was rounded
\* down and is less than the source's.
C29_Witness ==
    /\ pc = "framed"
    /\ SourceWider
    /\ resize_height = video_file.height
    /\ resize_width < video_file.width
    /\ resize_width * aspect_ratio[2] < video_file.height * aspect_ratio[1]

====
